---- MODULE Spec2Model ----
(***************************************************************************)
(* Model of tools/e133/SlpThread.cpp: a host thread (the select server     *)
(* passed to the constructor) and a worker thread (m_ss) that exchange     *)
(* single-use callbacks over two mutex-guarded queues, woken through two   *)
(* loopback sockets.  The worker owns the SLP handle, the url map and all  *)
(* timers of m_ss.                                                         *)
(***************************************************************************)
EXTENDS Integers, Sequences, FiniteSets, TLC

(* ------------------------------ bounds --------------------------------- *)
\* number of Discover/Register/DeRegister calls the host makes
MaxRequests == 2
\* number of timer callbacks the worker loop dispatches
MaxFires == 1
\* bytes a loopback socket buffers before a further Send is dropped
MaxPipe == 1

(* --------------------------- program constants ------------------------- *)
MIN_LIFETIME == 5
\* tools/e133/SlpThread.h (not part of the sources at hand): the cycle
\* period of slpd's aging process, in seconds
SLPD_AGING_TIME_S == 15
\* ola::network::INVALID_TIMEOUT
INVALID_TIMEOUT == 0
\* width of unsigned short
USHORT == 65536

SLP_OK == "SLP_OK"
SLP_ERR == "SLP_ERR"
SlpErrors == {SLP_OK, SLP_ERR}
\* (return code, error stored by the callback) of one SLP call
SlpOutcomes == SlpErrors \X SlpErrors

(* ------------------------------ inputs --------------------------------- *)
Urls == {"A"}
\* lifetimes a caller passes to Register (unsigned short)
Lifetimes == {1, 40}
\* values SLPGetRefreshInterval() reports
RefreshIntervals == {0, 35}
\* refresh_time arguments of the constructor (unsigned int)
RefreshTimes == {60}
\* a refresh_time that does not fit an unsigned short
WideRefreshTimes == {USHORT + 10}
\* (url, lifetime) lists SLPFindSrvs hands to ServiceCallback
FindResults ==
  { << >>,
    << [url |-> "A", lifetime |-> 10], [url |-> "B", lifetime |-> 30] >>,
    << [url |-> "A", lifetime |-> 70] >> }
\* what one SLPFindSrvs call does: (return code, error stored by the
\* callback, urls collected); a failed call may or may not have collected
FindOutcomes ==
  {<<SLP_OK, SLP_OK, urls>> : urls \in FindResults}
    \cup {<<SLP_ERR, e, << >> >> : e \in SlpErrors}
    \cup {<<SLP_OK, SLP_ERR,
            << [url |-> "A", lifetime |-> 10],
               [url |-> "B", lifetime |-> 30] >> >>}

VARIABLES
  m_init_ok,            \* SlpThread::m_init_ok
  m_refresh_time,       \* SlpThread::m_refresh_time
  m_discovery_callback, \* TRUE iff a discovery callback was passed
  m_incoming_socket,    \* [open, bytes]
  m_outgoing_socket,    \* [open, bytes]
  m_ss_sockets,         \* sockets registered with the worker loop m_ss
  m_main_ss_sockets,    \* sockets registered with the host loop m_main_ss
  slp_open,             \* the SLP handle is open
  m_terminate,          \* m_ss was told to terminate
  m_incoming_queue,
  m_outgoing_queue,
  m_incoming_mutex,     \* "free" or the thread holding it
  m_outgoing_mutex,
  m_url_map,            \* url -> [lifetime, timeout]
  m_discovery_timeout,  \* timeout id or INVALID_TIMEOUT
  timers,               \* timeouts armed on m_ss: [id, kind, url, ms]
  hpc, hcur,            \* host: position, callback in hand
  wpc, wcur, wsrc,      \* worker: position, callback in hand, who called
  joined,               \* OlaThread::Join has returned
  ret,                  \* the last host call and what it returned (TRUE if void)
  slp,                  \* what the handler the worker just ran did with SLP
  rids,                 \* requests accepted so far
  fires,                \* timer callbacks dispatched so far
  enqIn, execIn,        \* history of the incoming queue
  enqOut, execOut,      \* history of the outgoing queue
  cbLog,                \* caller-supplied callbacks run: who, where
  ssTouch               \* threads that touched m_ss while the worker ran

vars == << m_init_ok, m_refresh_time, m_discovery_callback, m_incoming_socket,
           m_outgoing_socket, m_ss_sockets, m_main_ss_sockets, slp_open,
           m_terminate, m_incoming_queue, m_outgoing_queue, m_incoming_mutex,
           m_outgoing_mutex, m_url_map, m_discovery_timeout, timers, hpc, hcur,
           wpc, wcur, wsrc, joined, ret, slp, rids, fires, enqIn, execIn,
           enqOut, execOut, cbLog, ssTouch >>

\* groups used in UNCHANGED
lifeVars == << m_init_ok, m_incoming_socket, m_outgoing_socket, m_ss_sockets,
               m_main_ss_sockets, slp_open >>
engineVars == << m_url_map, m_discovery_timeout, timers, slp >>
inQVars == << m_incoming_queue, m_incoming_mutex, enqIn, execIn >>
outQVars == << m_outgoing_queue, m_outgoing_mutex, enqOut, execOut >>
hostVars == << hpc, hcur, joined, ret, rids >>
workerVars == << wpc, wcur, wsrc, fires >>
ctorVars == << m_refresh_time, m_discovery_callback >>

NoCallback == [kind |-> "none"]
NoSlp == [calls |-> << >>, min |-> 0, err |-> SLP_OK, cberr |-> SLP_OK,
          found |-> << >>]
ClosedSocket == [open |-> FALSE, bytes |-> 0]
OpenSocket == [open |-> TRUE, bytes |-> 0]

\* the worker thread exists and has not exited
WorkerRunning == wpc \notin {"none", "exited"}

(* ----------------------- SlpThread::SlpThread -------------------------- *)
\* the bridge as the constructor leaves it, for a refresh_time argument
\* among refresh_times
Constructed(refresh_times) ==
  /\ m_init_ok = FALSE
  /\ m_refresh_time \in refresh_times
  /\ m_discovery_callback \in BOOLEAN
  /\ m_incoming_socket = ClosedSocket
  /\ m_outgoing_socket = ClosedSocket
  /\ m_ss_sockets = {}
  /\ m_main_ss_sockets = {}
  /\ slp_open = FALSE
  /\ m_terminate = FALSE
  /\ m_incoming_queue = << >>
  /\ m_outgoing_queue = << >>
  /\ m_incoming_mutex = "free"
  /\ m_outgoing_mutex = "free"
  /\ m_url_map = [u \in {} |-> 0]
  /\ m_discovery_timeout = INVALID_TIMEOUT
  /\ timers = {}
  /\ hpc = "idle"
  /\ hcur = NoCallback
  /\ wpc = "none"
  /\ wcur = NoCallback
  /\ wsrc = "none"
  /\ joined = FALSE
  /\ ret = [op |-> "SlpThread", val |-> TRUE]
  /\ slp = NoSlp
  /\ rids = 0
  /\ fires = 0
  /\ enqIn = << >>
  /\ execIn = << >>
  /\ enqOut = << >>
  /\ execOut = << >>
  /\ cbLog = << >>
  /\ ssTouch = {}

Init == Constructed(RefreshTimes)

\* constructed with any refresh_time, also one wider than 16 bits
InitWide == Constructed(RefreshTimes \cup WideRefreshTimes)

(* ------------------------- loopback sockets ---------------------------- *)
\* LoopbackSocket::Send of one byte: lost on a closed socket, dropped when
\* the buffer is full
SocketSend(socket) ==
  IF socket.open /\ socket.bytes < MaxPipe
    THEN [socket EXCEPT !.bytes = @ + 1]
    ELSE socket

\* a wake-up that sends nothing
WakeUpSocket_silent(socket) == socket
WakeUpSocket(socket) == SocketSend(socket)

\* reads until DataRemaining() is false
EmptySocket(socket) == [socket EXCEPT !.bytes = 0]

SocketClose(socket) == ClosedSocket

\* the select server calls the socket's OnData callback
Readable(socket, registered) == socket.open /\ socket.bytes > 0 /\ registered

(* --------------------------- SlpThread::Init --------------------------- *)
\* an Init that forgot the incoming socket when the outgoing one failed
InitResult_leak(inOk, outOk, slpErr) ==
  [val |-> inOk /\ outOk /\ slpErr = SLP_OK,
   incoming |-> IF inOk /\ (~outOk \/ slpErr = SLP_OK)
                  THEN OpenSocket ELSE ClosedSocket,
   outgoing |-> IF inOk /\ outOk /\ slpErr = SLP_OK
                  THEN OpenSocket ELSE ClosedSocket,
   ss |-> IF inOk /\ outOk /\ slpErr = SLP_OK
            THEN m_ss_sockets \cup {"incoming"} ELSE m_ss_sockets,
   main |-> IF inOk /\ outOk /\ slpErr = SLP_OK
              THEN m_main_ss_sockets \cup {"outgoing"}
              ELSE m_main_ss_sockets,
   handle |-> inOk /\ outOk /\ slpErr = SLP_OK,
   init_ok |-> inOk /\ outOk /\ slpErr = SLP_OK]
\* the state Init leaves behind, given which acquisition steps succeed
InitResult(inOk, outOk, slpErr) ==
  LET failed == [val |-> FALSE, incoming |-> ClosedSocket,
                 outgoing |-> ClosedSocket, ss |-> m_ss_sockets,
                 main |-> m_main_ss_sockets, handle |-> FALSE,
                 init_ok |-> FALSE]
  IN  IF ~inOk THEN failed
      ELSE IF ~outOk THEN [failed EXCEPT !.incoming = SocketClose(OpenSocket)]
      ELSE IF slpErr # SLP_OK
        THEN [failed EXCEPT !.incoming = SocketClose(OpenSocket),
                            !.outgoing = SocketClose(OpenSocket)]
      ELSE [val |-> TRUE, incoming |-> OpenSocket, outgoing |-> OpenSocket,
            ss |-> m_ss_sockets \cup {"incoming"},
            main |-> m_main_ss_sockets \cup {"outgoing"},
            handle |-> TRUE, init_ok |-> TRUE]

SlpThread_Init ==
  /\ hpc = "idle"
  /\ IF m_init_ok
       THEN /\ ret' = [op |-> "Init", val |-> TRUE]
            /\ UNCHANGED lifeVars
       ELSE \E inOk \in BOOLEAN, outOk \in BOOLEAN, slpErr \in SlpErrors :
              LET r == InitResult(inOk, outOk, slpErr)
              IN  /\ ret' = [op |-> "Init", val |-> r.val]
                  /\ m_incoming_socket' = r.incoming
                  /\ m_outgoing_socket' = r.outgoing
                  /\ m_ss_sockets' = r.ss
                  /\ m_main_ss_sockets' = r.main
                  /\ slp_open' = r.handle
                  /\ m_init_ok' = r.init_ok
  /\ UNCHANGED << ctorVars, m_terminate, inQVars, outQVars, engineVars, hpc,
                  hcur, joined, rids, workerVars, cbLog, ssTouch >>

(* --------------------------- SlpThread::Start -------------------------- *)
\* OlaThread::Start creates the thread, which enters Run(): m_ss.Run()
StartResult == m_init_ok

\* the thread is started once
Start ==
  /\ hpc = "idle"
  /\ ~StartResult \/ wpc = "none"
  /\ ret' = [op |-> "Start", val |-> StartResult]
  /\ wpc' = IF StartResult THEN "loop" ELSE wpc
  /\ UNCHANGED << ctorVars, lifeVars, m_terminate, inQVars, outQVars,
                  engineVars, hpc, hcur, joined, rids, wcur, wsrc, fires,
                  cbLog, ssTouch >>

(* ------------------------- the guarded queues -------------------------- *)
\* a push at the front of the queue
QueuePush_front(queue, callback) == << callback >> \o queue
QueuePush(queue, callback) == Append(queue, callback)
\* a drain that took the newest callback instead of the oldest
QueueFront_newest(queue) == queue[Len(queue)]
QueueFront(queue) == Head(queue)
QueuePop(queue) == Tail(queue)

\* pthread_mutex_lock returns once the mutex is free
Lockable(mutex) == mutex = "free"

\* the mutex as a critical section leaves it: unlocked
AfterPush(thread) == "free"
\* a drain that runs the callback before it unlocks
AfterPop_held(thread) == thread
AfterPop(thread) == "free"

(* ------------------ Discover / Register / DeRegister ------------------- *)
\* a queued callback carries what it was bound to: url and lifetime; rid
\* numbers the requests and asked is the lifetime the caller passed, both
\* kept for the record only
\* AddToIncomingQueue: lock, push, unlock
AddToIncomingQueue(callback) ==
  /\ Lockable(m_incoming_mutex)
  /\ m_incoming_queue' = QueuePush(m_incoming_queue, callback)
  /\ m_incoming_mutex' = AfterPush("host")
  /\ enqIn' = Append(enqIn, callback)
  /\ UNCHANGED execIn

\* the host calls these on a bridge whose Init succeeded and which it has
\* not asked to stop
MayRequest == hpc = "idle" /\ m_init_ok /\ ~m_terminate /\ rids < MaxRequests

\* a Discover that never looked at the discovery callback
DiscoverAccepted_always == TRUE
\* Discover() is refused without a discovery callback
DiscoverAccepted == m_discovery_callback

Discover ==
  /\ MayRequest
  /\ ret' = [op |-> "Discover", val |-> DiscoverAccepted]
  /\ IF DiscoverAccepted
       THEN /\ AddToIncomingQueue([kind |-> "DiscoveryRequest",
                                   rid |-> rids + 1, url |-> "",
                                   lifetime |-> 0, asked |-> 0])
            /\ rids' = rids + 1
            /\ hpc' = "wake"
       ELSE UNCHANGED << inQVars, rids, hpc >>
  /\ UNCHANGED << ctorVars, lifeVars, m_terminate, outQVars, engineVars,
                  hcur, joined, workerVars, cbLog, ssTouch >>

\* a Register that bound the lifetime as passed
RegisterLifetime_asPassed(lifetime) == lifetime
\* the lifetime Register binds into the RegisterRequest callback
RegisterLifetime(lifetime) ==
  IF lifetime <= SLPD_AGING_TIME_S * 2 THEN 2 * SLPD_AGING_TIME_S ELSE lifetime

Register(url, lifetime) ==
  /\ MayRequest
  /\ AddToIncomingQueue([kind |-> "RegisterRequest", rid |-> rids + 1,
                         url |-> url,
                         lifetime |-> RegisterLifetime(lifetime),
                         asked |-> lifetime])
  /\ rids' = rids + 1
  /\ hpc' = "wake"
  /\ ret' = [op |-> "Register", val |-> TRUE]
  /\ UNCHANGED << ctorVars, lifeVars, m_terminate, outQVars, engineVars,
                  hcur, joined, workerVars, cbLog, ssTouch >>

DeRegister(url) ==
  /\ MayRequest
  /\ AddToIncomingQueue([kind |-> "DeregisterRequest", rid |-> rids + 1,
                         url |-> url, lifetime |-> 0, asked |-> 0])
  /\ rids' = rids + 1
  /\ hpc' = "wake"
  /\ ret' = [op |-> "DeRegister", val |-> TRUE]
  /\ UNCHANGED << ctorVars, lifeVars, m_terminate, outQVars, engineVars,
                  hcur, joined, workerVars, cbLog, ssTouch >>

\* WakeUpSocket(&m_incoming_socket) closing Discover/Register/DeRegister
RequestWakeUp ==
  /\ hpc = "wake"
  /\ m_incoming_socket' = WakeUpSocket(m_incoming_socket)
  /\ hpc' = "idle"
  /\ UNCHANGED << ctorVars, m_init_ok, m_outgoing_socket, m_ss_sockets,
                  m_main_ss_sockets, slp_open, m_terminate, inQVars, outQVars,
                  engineVars, hcur, joined, ret, rids, workerVars, cbLog,
                  ssTouch >>

(* ------------------------- RequestComplete ----------------------------- *)
\* DiscoveryActionComplete / SimpleActionComplete: the caller's callback
\* runs in the thread, and at the place, that runs the completion
RunCompletion(log, callback, thread, where) ==
  Append(log, [rid |-> callback.rid, kind |-> callback.kind,
               ok |-> callback.ok, thread |-> thread, where |-> where])

RequestComplete ==
  /\ hpc = "idle"
  /\ Readable(m_outgoing_socket, "outgoing" \in m_main_ss_sockets)
  /\ m_outgoing_socket' = EmptySocket(m_outgoing_socket)
  /\ hpc' = "rc_pop"
  /\ UNCHANGED << ctorVars, m_init_ok, m_incoming_socket, m_ss_sockets,
                  m_main_ss_sockets, slp_open, m_terminate, inQVars, outQVars,
                  engineVars, hcur, joined, ret, rids, workerVars, cbLog,
                  ssTouch >>

\* one turn of the loop up to callback->Run(): lock, test, pop, unlock
RequestCompletePop ==
  /\ hpc = "rc_pop"
  /\ Lockable(m_outgoing_mutex)
  /\ m_outgoing_mutex' = AfterPop("host")
  /\ IF m_outgoing_queue = << >>
       THEN /\ hpc' = "idle"
            /\ UNCHANGED << m_outgoing_queue, hcur >>
       ELSE /\ hcur' = QueueFront(m_outgoing_queue)
            /\ m_outgoing_queue' = QueuePop(m_outgoing_queue)
            /\ hpc' = "rc_run"
  /\ UNCHANGED << ctorVars, lifeVars, m_terminate, inQVars, enqOut, execOut,
                  engineVars, joined, ret, rids, workerVars, cbLog, ssTouch >>

RequestCompleteRun ==
  /\ hpc = "rc_run"
  /\ execOut' = Append(execOut, hcur)
  /\ cbLog' = RunCompletion(cbLog, hcur, "host", "RequestComplete")
  /\ hcur' = NoCallback
  /\ hpc' = "rc_pop"
  /\ UNCHANGED << ctorVars, lifeVars, m_terminate, inQVars, m_outgoing_queue,
                  m_outgoing_mutex, enqOut, engineVars, joined,
                  ret, rids, workerVars, ssTouch >>

(* --------------------------- SlpThread::Join --------------------------- *)
\* m_ss.Terminate(), called by the thread that calls Join
Join ==
  /\ hpc = "idle"
  /\ wpc # "none"
  /\ ~joined
  /\ m_terminate' = TRUE
  /\ ssTouch' = IF WorkerRunning THEN ssTouch \cup {"host"} ELSE ssTouch
  /\ hpc' = "join_wake"
  /\ UNCHANGED << ctorVars, lifeVars, inQVars, outQVars, engineVars, hcur,
                  joined, ret, rids, workerVars, cbLog >>

JoinWakeUp ==
  /\ hpc = "join_wake"
  /\ m_incoming_socket' = WakeUpSocket(m_incoming_socket)
  /\ hpc' = "join_wait"
  /\ UNCHANGED << ctorVars, m_init_ok, m_outgoing_socket, m_ss_sockets,
                  m_main_ss_sockets, slp_open, m_terminate, inQVars, outQVars,
                  engineVars, hcur, joined, ret, rids, workerVars, cbLog,
                  ssTouch >>

\* OlaThread::Join: pthread_join returns once Run() has returned
JoinReturn ==
  /\ hpc = "join_wait"
  /\ wpc = "exited"
  /\ joined' = TRUE
  /\ ret' = [op |-> "Join", val |-> TRUE]
  /\ hpc' = "idle"
  /\ UNCHANGED << ctorVars, lifeVars, m_terminate, inQVars, outQVars,
                  engineVars, hcur, rids, workerVars, cbLog, ssTouch >>

(* -------------------------- SlpThread::Cleanup ------------------------- *)
\* called before the thread is started or after it was joined
Cleanup ==
  /\ hpc = "idle"
  /\ wpc = "none" \/ joined
  /\ IF m_incoming_socket.open
       THEN /\ m_ss_sockets' = m_ss_sockets \ {"incoming"}
            /\ m_incoming_socket' = SocketClose(m_incoming_socket)
       ELSE UNCHANGED << m_ss_sockets, m_incoming_socket >>
  /\ IF m_outgoing_socket.open
       THEN /\ m_main_ss_sockets' = m_main_ss_sockets \ {"outgoing"}
            /\ m_outgoing_socket' = SocketClose(m_outgoing_socket)
       ELSE UNCHANGED << m_main_ss_sockets, m_outgoing_socket >>
  /\ slp_open' = IF m_init_ok THEN FALSE ELSE slp_open
  /\ m_init_ok' = FALSE
  /\ ret' = [op |-> "Cleanup", val |-> TRUE]
  /\ UNCHANGED << ctorVars, m_terminate, inQVars, outQVars, engineVars, hpc,
                  hcur, joined, rids, workerVars, cbLog, ssTouch >>

(* ------------------------- timers of m_ss ------------------------------ *)
\* every timeout id some handle of the worker still holds
HeldTimeouts(map) ==
  {m_discovery_timeout} \cup {map[u].timeout : u \in DOMAIN map}

\* RegisterSingleTimeout hands out an id no armed timeout and no handle has
FreshTimeout(ts, map) ==
  CHOOSE i \in 1..(Cardinality(Urls) + MaxFires + 2) :
    /\ i \notin {t.id : t \in ts} \cup HeldTimeouts(map)
    /\ \A j \in 1..(i - 1) : j \in {t.id : t \in ts} \cup HeldTimeouts(map)

RegisterSingleTimeout(ts, id, ms, kind, url) ==
  ts \cup {[id |-> id, kind |-> kind, url |-> url, ms |-> ms]}

\* removing a timeout that already ran, or was removed, changes nothing
RemoveTimeout(ts, id) == {t \in ts : t.id # id}

(* ----------------------- DiscoveryRequest ------------------------------ *)
Min(a, b) == IF a < b THEN a ELSE b
Max(a, b) == IF a > b THEN a ELSE b

\* a check of the return code alone
SlpOk_returnCodeOnly(err, cberr) == err = SLP_OK
\* both the call's return code and the error the callback stored must be OK
SlpOk(err, cberr) == err = SLP_OK /\ cberr = SLP_OK

RECURSIVE MinLifetime(_, _)
MinLifetime(urls, duration) ==
  IF urls = << >> THEN duration
  ELSE MinLifetime(Tail(urls), Min(Head(urls).lifetime, duration))

\* a refresh that never follows the advertised lifetimes
NextDiscoveryDuration_fixed(refresh_time, ok, urls) == refresh_time % USHORT
\* unsigned short next_discovery_duration
NextDiscoveryDuration(refresh_time, ok, urls) ==
  LET start == refresh_time % USHORT
  IN  IF ok THEN MinLifetime(urls, start) ELSE start

UrlsOf(urls) == [i \in 1..Len(urls) |-> urls[i].url]

\* a DiscoveryRequest that left the timeout it found armed
DiscoveryResult_keepOld(armed, timeout, rid, err, cberr, urls) ==
  LET ok == SlpOk(err, cberr)
      duration == NextDiscoveryDuration(m_refresh_time, ok, urls)
      id == FreshTimeout(armed, m_url_map)
  IN  [timers |-> RegisterSingleTimeout(armed, id, duration * 1000, "disc", ""),
       timeout |-> id,
       slp |-> [calls |-> << [op |-> "SLPFindSrvs", url |-> "", lifetime |-> 0] >>,
                min |-> 0, err |-> err, cberr |-> cberr, found |-> urls],
       done |-> [kind |-> "DiscoveryActionComplete", rid |-> rid, ok |-> ok,
                 urls |-> UrlsOf(urls)]]
\* the body of DiscoveryRequest given what SLPFindSrvs did; `armed` and
\* `timeout` are the timers of m_ss and m_discovery_timeout as it finds them
DiscoveryResult(armed, timeout, rid, err, cberr, urls) ==
  LET ts == IF timeout # INVALID_TIMEOUT
              THEN RemoveTimeout(armed, timeout) ELSE armed
      ok == SlpOk(err, cberr)
      duration == NextDiscoveryDuration(m_refresh_time, ok, urls)
      id == FreshTimeout(ts, m_url_map)
  IN  [timers |-> RegisterSingleTimeout(ts, id, duration * 1000, "disc", ""),
       timeout |-> id,
       slp |-> [calls |-> << [op |-> "SLPFindSrvs", url |-> "", lifetime |-> 0] >>,
                min |-> 0, err |-> err, cberr |-> cberr, found |-> urls],
       done |-> [kind |-> "DiscoveryActionComplete", rid |-> rid, ok |-> ok,
                 urls |-> UrlsOf(urls)]]

(* ------------------ RegisterRequest / PerformRegistration -------------- *)
\* a RegisterRequest that applied the floor and never asked the DA
EffectiveLifetime_floorOnly(lifetime, min_lifetime) ==
  Max(lifetime, MIN_LIFETIME)
\* the lifetime RegisterRequest goes on with
EffectiveLifetime(lifetime, min_lifetime) ==
  LET floored == Max(lifetime, MIN_LIFETIME)
  IN  IF min_lifetime # 0 /\ floored < min_lifetime
        THEN min_lifetime ELSE floored

\* a renewal armed at the end of the lease, without the aging margin
RenewalDelay_noMargin(lifetime) == lifetime * 1000
\* the delay of the renewal timeout, in ms: lifetime is an unsigned short,
\* the product an int
RenewalDelay(lifetime) ==
  (((lifetime - SLPD_AGING_TIME_S) % USHORT) - 1) * 1000

PerformRegistration(map, ts, url, lifetime, err, cberr) ==
  LET id == FreshTimeout(ts, map)
  IN  [ok |-> SlpOk(err, cberr),
       map |-> [map EXCEPT ![url].timeout = id],
       timers |-> RegisterSingleTimeout(ts, id, RenewalDelay(lifetime),
                                        "reg", url),
       calls |-> << [op |-> "SLPReg", url |-> url, lifetime |-> lifetime] >>]

\* an entry with this lifetime exists: the request is answered at once
MatchesCurrent_never(map, url, lifetime) == FALSE
MatchesCurrent(map, url, lifetime) ==
  url \in DOMAIN map /\ map[url].lifetime = lifetime

MapInsert(map, url, state) ==
  [u \in DOMAIN map \cup {url} |-> IF u = url THEN state ELSE map[u]]

\* a deregistration that left the entry in the map
MapErase_keep(map, url) == map
MapErase(map, url) == [u \in DOMAIN map \ {url} |-> map[u]]

RegisterResult(rid, url, requested, min_lifetime, err, cberr) ==
  LET lifetime == EffectiveLifetime(requested, min_lifetime)
      quiet == [min |-> min_lifetime, err |-> SLP_OK, cberr |-> SLP_OK,
                found |-> << >>]
  IN  IF MatchesCurrent(m_url_map, url, lifetime)
        THEN [map |-> m_url_map, timers |-> timers,
              slp |-> [calls |-> << >>] @@ quiet,
              done |-> [kind |-> "SimpleActionComplete", rid |-> rid,
                        ok |-> TRUE, urls |-> << >>]]
        ELSE
          LET found == url \in DOMAIN m_url_map
              map == IF found
                       THEN [m_url_map EXCEPT ![url].lifetime = lifetime]
                       ELSE MapInsert(m_url_map, url,
                              [lifetime |-> lifetime,
                               timeout |-> INVALID_TIMEOUT])
              ts == IF found /\ m_url_map[url].timeout # INVALID_TIMEOUT
                      THEN RemoveTimeout(timers, m_url_map[url].timeout)
                      ELSE timers
              r == PerformRegistration(map, ts, url, lifetime, err, cberr)
          IN  [map |-> r.map, timers |-> r.timers,
               slp |-> [calls |-> r.calls, min |-> min_lifetime,
                        err |-> err, cberr |-> cberr, found |-> << >>],
               done |-> [kind |-> "SimpleActionComplete", rid |-> rid,
                         ok |-> r.ok, urls |-> << >>]]

(* --------------------------- DeregisterRequest ------------------------- *)
\* a DeregisterRequest that erased the entry and left its timeout armed
DeregisterResult_leaveTimer(rid, url, err, cberr) ==
  LET found == url \in DOMAIN m_url_map
      map == IF found THEN MapErase(m_url_map, url) ELSE m_url_map
  IN  [map |-> map, timers |-> timers,
       slp |-> [calls |-> << [op |-> "SLPDereg", url |-> url,
                              lifetime |-> 0,
                              entry |-> url \in DOMAIN map] >>,
                min |-> 0, err |-> err, cberr |-> cberr, found |-> << >>],
       done |-> [kind |-> "SimpleActionComplete", rid |-> rid,
                 ok |-> SlpOk(err, cberr), urls |-> << >>]]
\* the SLPDereg call records whether the url has an entry when it is made
DeregisterResult(rid, url, err, cberr) ==
  LET found == url \in DOMAIN m_url_map
      ts == IF found /\ m_url_map[url].timeout # INVALID_TIMEOUT
              THEN RemoveTimeout(timers, m_url_map[url].timeout)
              ELSE timers
      map == IF found THEN MapErase(m_url_map, url) ELSE m_url_map
  IN  [map |-> map, timers |-> ts,
       slp |-> [calls |-> << [op |-> "SLPDereg", url |-> url,
                              lifetime |-> 0,
                              entry |-> url \in DOMAIN map] >>,
                min |-> 0, err |-> err, cberr |-> cberr, found |-> << >>],
       done |-> [kind |-> "SimpleActionComplete", rid |-> rid,
                 ok |-> SlpOk(err, cberr), urls |-> << >>]]

(* ------------------------- RegistrationTriggered ----------------------- *)
\* `ts` is the timers of m_ss once the timeout that fired is gone
RegistrationResult(ts, url, err, cberr) ==
  IF url \in DOMAIN m_url_map
    THEN LET r == PerformRegistration(m_url_map, ts, url,
                                      m_url_map[url].lifetime, err, cberr)
         IN  [map |-> r.map, timers |-> r.timers,
              slp |-> [calls |-> r.calls, min |-> 0, err |-> err,
                       cberr |-> cberr, found |-> << >>]]
    ELSE [map |-> m_url_map, timers |-> ts, slp |-> NoSlp]

(* ------------------------------ m_ss.Run ------------------------------- *)
\* Run() returns once the loop sees the terminate flag
RunReturn ==
  /\ wpc = "loop"
  /\ m_terminate
  /\ wpc' = "exited"
  /\ UNCHANGED << ctorVars, lifeVars, m_terminate, inQVars, outQVars,
                  engineVars, hostVars, wcur, wsrc, fires, cbLog, ssTouch >>

(* ----------------------------- NewRequest ------------------------------ *)
NewRequest ==
  /\ wpc = "loop"
  /\ ~m_terminate
  /\ Readable(m_incoming_socket, "incoming" \in m_ss_sockets)
  /\ m_incoming_socket' = EmptySocket(m_incoming_socket)
  /\ wpc' = "nr_pop"
  /\ wsrc' = "queue"
  /\ UNCHANGED << ctorVars, m_init_ok, m_outgoing_socket, m_ss_sockets,
                  m_main_ss_sockets, slp_open, m_terminate, inQVars, outQVars,
                  engineVars, hostVars, wcur, fires, cbLog, ssTouch >>

\* one turn of the loop up to callback->Run(): lock, test, pop, unlock
NewRequestPop ==
  /\ wpc = "nr_pop"
  /\ Lockable(m_incoming_mutex)
  /\ m_incoming_mutex' = AfterPop("worker")
  /\ IF m_incoming_queue = << >>
       THEN /\ wpc' = "loop"
            /\ wsrc' = "none"
            /\ UNCHANGED << m_incoming_queue, wcur >>
       ELSE /\ wcur' = QueueFront(m_incoming_queue)
            /\ m_incoming_queue' = QueuePop(m_incoming_queue)
            /\ wpc' = "nr_run"
            /\ UNCHANGED wsrc
  /\ UNCHANGED << ctorVars, lifeVars, m_terminate, enqIn, execIn, outQVars,
                  engineVars, hostVars, fires, cbLog, ssTouch >>

\* m_ss is touched by the worker when a handler arms or removes a timeout
Touch(ts) == IF ts # timers THEN ssTouch \cup {"worker"} ELSE ssTouch

\* a handler that ran the caller's callback itself
RunByWorker_direct(log, done) ==
  RunCompletion(log, done, "worker", "AddToOutgoingQueue")
\* the caller's callbacks a worker handler runs itself: none, a completion
\* goes to the outgoing queue
RunByWorker(log, done) == log

\* AddToOutgoingQueue up to the unlock: lock, push, unlock
AddToOutgoingQueue(done) ==
  /\ Lockable(m_outgoing_mutex)
  /\ m_outgoing_queue' = QueuePush(m_outgoing_queue, done)
  /\ m_outgoing_mutex' = AfterPush("worker")
  /\ enqOut' = Append(enqOut, done)
  /\ cbLog' = RunByWorker(cbLog, done)
  /\ UNCHANGED execOut

\* callback->Run() for a DiscoveryRequest taken from the incoming queue
RunDiscoveryRequest ==
  /\ wpc = "nr_run"
  /\ wcur.kind = "DiscoveryRequest"
  /\ \E out \in FindOutcomes :
       LET r == DiscoveryResult(timers, m_discovery_timeout, wcur.rid,
                                out[1], out[2], out[3])
       IN  /\ timers' = r.timers
           /\ m_discovery_timeout' = r.timeout
           /\ slp' = r.slp
           /\ ssTouch' = Touch(r.timers)
           /\ AddToOutgoingQueue(r.done)
  /\ execIn' = Append(execIn, wcur)
  /\ wcur' = NoCallback
  /\ wpc' = "aoq_wake"
  /\ UNCHANGED << ctorVars, lifeVars, m_terminate, m_incoming_queue,
                  m_incoming_mutex, enqIn, m_url_map, hostVars,
                  wsrc, fires >>

RunRegisterRequest ==
  /\ wpc = "nr_run"
  /\ wcur.kind = "RegisterRequest"
  /\ \E min_lifetime \in RefreshIntervals, out \in SlpOutcomes :
       LET r == RegisterResult(wcur.rid, wcur.url, wcur.lifetime,
                               min_lifetime, out[1], out[2])
       IN  /\ m_url_map' = r.map
           /\ timers' = r.timers
           /\ slp' = r.slp
           /\ ssTouch' = Touch(r.timers)
           /\ AddToOutgoingQueue(r.done)
  /\ execIn' = Append(execIn, wcur)
  /\ wcur' = NoCallback
  /\ wpc' = "aoq_wake"
  /\ UNCHANGED << ctorVars, lifeVars, m_terminate, m_incoming_queue,
                  m_incoming_mutex, enqIn, m_discovery_timeout,
                  hostVars, wsrc, fires >>

RunDeregisterRequest ==
  /\ wpc = "nr_run"
  /\ wcur.kind = "DeregisterRequest"
  /\ \E out \in SlpOutcomes :
       LET r == DeregisterResult(wcur.rid, wcur.url, out[1], out[2])
       IN  /\ m_url_map' = r.map
           /\ timers' = r.timers
           /\ slp' = r.slp
           /\ ssTouch' = Touch(r.timers)
           /\ AddToOutgoingQueue(r.done)
  /\ execIn' = Append(execIn, wcur)
  /\ wcur' = NoCallback
  /\ wpc' = "aoq_wake"
  /\ UNCHANGED << ctorVars, lifeVars, m_terminate, m_incoming_queue,
                  m_incoming_mutex, enqIn, m_discovery_timeout,
                  hostVars, wsrc, fires >>

\* WakeUpSocket(&m_outgoing_socket); the handler returns to its caller
AddToOutgoingQueueWakeUp ==
  /\ wpc = "aoq_wake"
  /\ m_outgoing_socket' = WakeUpSocket(m_outgoing_socket)
  /\ wpc' = IF wsrc = "queue" THEN "nr_pop" ELSE "loop"
  /\ wsrc' = IF wsrc = "queue" THEN wsrc ELSE "none"
  /\ slp' = NoSlp
  /\ UNCHANGED << ctorVars, m_init_ok, m_incoming_socket, m_ss_sockets,
                  m_main_ss_sockets, slp_open, m_terminate, inQVars, outQVars,
                  m_url_map, m_discovery_timeout, timers, hostVars, wcur,
                  fires, cbLog, ssTouch >>

(* --------------------------- timer callbacks --------------------------- *)
\* slp.min records the refresh interval the DA advertises while a handler
\* that registers runs: RegisterRequest asks for it, RegistrationTriggered
\* does not, and it may have changed since the entry was made
\* a timeout callback blocks in its SLP call, and the host may run Join
\* meanwhile: the callback then goes on with the terminate flag set, and
\* Run() returns after it.  The callback is taken as one step, at its
\* return, so the step does not look at the flag
DiscoveryTriggered ==
  /\ wpc = "loop"
  /\ fires < MaxFires
  /\ \E t \in timers :
       /\ t.kind = "disc"
       /\ \E out \in FindOutcomes :
            LET r == DiscoveryResult(timers \ {t}, INVALID_TIMEOUT, 0,
                                     out[1], out[2], out[3])
            IN  /\ timers' = r.timers
                /\ m_discovery_timeout' = r.timeout
                /\ slp' = r.slp
                /\ AddToOutgoingQueue(r.done)
  /\ ssTouch' = ssTouch \cup {"worker"}
  /\ fires' = fires + 1
  /\ wsrc' = "timer"
  /\ wpc' = "aoq_wake"
  /\ UNCHANGED << ctorVars, lifeVars, m_terminate, inQVars, m_url_map,
                  hostVars, wcur >>

RegistrationTriggered ==
  /\ wpc = "loop"
  /\ fires < MaxFires
  /\ \E t \in timers :
       /\ t.kind = "reg"
       /\ \E min_lifetime \in RefreshIntervals, out \in SlpOutcomes :
            LET r == RegistrationResult(timers \ {t}, t.url, out[1], out[2])
            IN  /\ m_url_map' = r.map
                /\ timers' = r.timers
                /\ slp' = [r.slp EXCEPT !.min = min_lifetime]
  /\ ssTouch' = ssTouch \cup {"worker"}
  /\ fires' = fires + 1
  /\ UNCHANGED << ctorVars, lifeVars, m_terminate, inQVars, outQVars,
                  m_discovery_timeout, hostVars, wpc, wcur, wsrc, cbLog >>

\* RegistrationTriggered(url) run by a test for a url whose timeout is not
\* armed (it was removed, or never set)
ForcedRegistrationTriggered ==
  /\ wpc = "loop"
  /\ ~m_terminate
  /\ fires < MaxFires
  /\ \E url \in Urls, min_lifetime \in RefreshIntervals,
        out \in SlpOutcomes :
       LET r == RegistrationResult(timers, url, out[1], out[2])
       IN  /\ {t \in timers : t.kind = "reg" /\ t.url = url} = {}
           /\ m_url_map' = r.map
           /\ timers' = r.timers
           /\ slp' = [r.slp EXCEPT !.min = min_lifetime] @@ [forced |-> url]
  /\ fires' = fires + 1
  /\ UNCHANGED << ctorVars, lifeVars, m_terminate, inQVars, outQVars,
                  m_discovery_timeout, hostVars, wpc, wcur, wsrc, cbLog,
                  ssTouch >>

(* ---------------------------- specifications --------------------------- *)
HostNext ==
  \/ SlpThread_Init
  \/ Start
  \/ Discover
  \/ \E url \in Urls, lifetime \in Lifetimes : Register(url, lifetime)
  \/ \E url \in Urls : DeRegister(url)
  \/ RequestWakeUp
  \/ RequestComplete
  \/ RequestCompletePop
  \/ RequestCompleteRun

StopNext ==
  \/ Join
  \/ JoinWakeUp
  \/ JoinReturn
  \/ Cleanup

\* the worker inside m_ss.Run(): socket handlers and timeouts
WorkerLoop ==
  \/ NewRequest
  \/ NewRequestPop
  \/ RunDiscoveryRequest
  \/ RunRegisterRequest
  \/ RunDeregisterRequest
  \/ AddToOutgoingQueueWakeUp
  \/ DiscoveryTriggered
  \/ RegistrationTriggered

WorkerNext == RunReturn \/ WorkerLoop

Next == HostNext \/ StopNext \/ WorkerNext

Spec == Init /\ [][Next]_vars

\* the bridge while nobody stops it: the host finishes the call it is in
\* and its loop runs RequestComplete when the outgoing socket is readable;
\* the worker thread is scheduled whenever it can take a step. Run() does
\* not return here, as the terminate flag is only set by Join
HostLoop ==
  \/ RequestWakeUp
  \/ RequestComplete
  \/ RequestCompletePop
  \/ RequestCompleteRun

NextLive == HostNext \/ WorkerLoop

LiveSpec ==
  Init /\ [][NextLive]_vars /\ WF_vars(HostLoop) /\ WF_vars(WorkerLoop)

\* the same program with a test forcing RegistrationTriggered(url)
NextForced == Next \/ ForcedRegistrationTriggered

SpecForced == Init /\ [][NextForced]_vars

\* the same program constructed with any refresh_time
SpecWide == InitWide /\ [][Next]_vars

(* ------------------------------- claims -------------------------------- *)
IsPrefix(s, t) == Len(s) <= Len(t) /\ SubSeq(t, 1, Len(s)) = s

\* the worker runs a callback it took from the incoming queue
RunsRequest(kind) ==
  wpc = "nr_run" /\ wcur.kind = kind /\ wpc' = "aoq_wake"

\* the renewal timeouts armed for a url
RenewalTimers(ts, url) == {t \in ts : t.kind = "reg" /\ t.url = url}

\* C1: on either queue the callbacks run are, in order, the first ones
\* pushed (so none runs twice, before it is pushed, or out of order), and
\* when a drain loop returns every callback pushed so far has run.
C1_QueueFifoExactlyOnce ==
  /\ [](IsPrefix(execIn, enqIn) /\ IsPrefix(execOut, enqOut))
  /\ [][(wpc = "nr_pop" /\ wpc' = "loop") => execIn' = enqIn']_vars
  /\ [][(hpc = "rc_pop" /\ hpc' = "idle") => execOut' = enqOut']_vars

\* both drain loops have returned, two requests and their completions
\* were pushed and all of them have run
C1_Witness ==
  /\ wpc = "loop" /\ hpc = "idle"
  /\ Len(enqIn) = 2 /\ execIn = enqIn
  /\ Len(enqOut) >= 2 /\ execOut = enqOut
  /\ enqOut[1].rid = 1 /\ m_incoming_socket.bytes = 0
  /\ m_outgoing_socket.bytes = 0

\* C2: a RegisterRequest for a url whose entry already has the effective
\* lifetime makes no SLP call, arms no timeout, leaves the entry and the
\* timers as they are and queues a completion with ok = TRUE; the callbacks
\* the host runs carry the ok that was queued.
C2_SameLeaseShortCircuit ==
  /\ [][(/\ RunsRequest("RegisterRequest")
         /\ wcur.url \in DOMAIN m_url_map
         /\ m_url_map[wcur.url].lifetime
              = EffectiveLifetime(wcur.lifetime, slp'.min))
        => /\ slp'.calls = << >>
           /\ timers' = timers
           /\ m_url_map' = m_url_map
           /\ enqOut' = Append(enqOut, [kind |-> "SimpleActionComplete",
                                        rid |-> wcur.rid, ok |-> TRUE,
                                        urls |-> << >>])]_vars
  /\ [](\A i \in 1..Len(cbLog) :
          cbLog[i].rid = enqOut[i].rid /\ cbLog[i].ok = enqOut[i].ok)

\* the second of two Register calls for the same url was answered without
\* an SLP call and the host has run its callback
C2_Witness ==
  /\ Len(execIn) = 2
  /\ execIn[1].kind = "RegisterRequest" /\ execIn[2].kind = "RegisterRequest"
  /\ execIn[1].url = execIn[2].url
  /\ Len(cbLog) = 2 /\ cbLog[2].rid = 2 /\ cbLog[2].ok
  /\ ~cbLog[1].ok
  /\ fires = 0
  /\ Cardinality(timers) = 1
  /\ execIn[1].url \in DOMAIN m_url_map
  /\ m_url_map[execIn[1].url].lifetime = execIn[2].lifetime

\* C3: a DeregisterRequest leaves no entry and no renewal timeout for its
\* url, and RegistrationTriggered(url) run afterwards for a url without an
\* entry makes no SLP call, arms nothing and creates no entry.
C3_DeregisterCancelsRenewal ==
  /\ [][RunsRequest("DeregisterRequest")
        => /\ wcur.url \notin DOMAIN m_url_map'
           /\ RenewalTimers(timers', wcur.url) = {}]_vars
  /\ [][(/\ "forced" \in DOMAIN slp'
         /\ fires' = fires + 1
         /\ slp'.forced \notin DOMAIN m_url_map)
        => /\ slp'.calls = << >>
           /\ timers' = timers
           /\ m_url_map' = m_url_map]_vars

\* Register(A) then DeRegister(A) were processed and the timeout of A was
\* then forced: nothing is registered or armed for A
C3_Witness ==
  /\ Len(execIn) = 2
  /\ execIn[1].kind = "RegisterRequest"
  /\ execIn[2].kind = "DeregisterRequest"
  /\ execIn[1].url = execIn[2].url
  /\ "forced" \in DOMAIN slp /\ slp.forced = execIn[1].url
  /\ slp.calls = << >>
  /\ m_url_map = [u \in {} |-> 0]
  /\ timers = {}

\* the smallest lifetime in a non-empty list of (url, lifetime)
LeastLifetime(urls) ==
  CHOOSE m \in {urls[i].lifetime : i \in 1..Len(urls)} :
    \A i \in 1..Len(urls) : urls[i].lifetime >= m

\* a discovery run has just found a non-empty list, without error
DiscoverySucceeded ==
  /\ slp.calls # << >>
  /\ slp.calls[1].op = "SLPFindSrvs"
  /\ slp.err = SLP_OK /\ slp.cberr = SLP_OK
  /\ slp.found # << >>

\* C4 as stated: after a successful discovery run with a non-empty result
\* the refresh timeout is armed at the smallest advertised lifetime,
\* whatever the base refresh time.
C4_DelayIsLeastLifetime ==
  DiscoverySucceeded
    => \E t \in timers :
         /\ t.id = m_discovery_timeout /\ t.kind = "disc"
         /\ t.ms = LeastLifetime(slp.found) * 1000

\* C4 amended: the refresh timeout is armed at the smaller of the smallest
\* advertised lifetime and the base refresh time (as an unsigned short), and
\* it is the only discovery timeout armed.
C4_DelayIsLeastOfLifetimesAndRefresh ==
  DiscoverySucceeded
    => /\ \E t \in timers :
            /\ t.id = m_discovery_timeout /\ t.kind = "disc"
            /\ t.ms = Min(LeastLifetime(slp.found),
                          m_refresh_time % USHORT) * 1000
       /\ Cardinality({t \in timers : t.kind = "disc"}) = 1

\* results [(A,10),(B,30)] with base refresh 60 armed the timeout at 10 s
C4_Witness ==
  /\ DiscoverySucceeded
  /\ m_refresh_time = 60
  /\ slp.found = << [url |-> "A", lifetime |-> 10],
                    [url |-> "B", lifetime |-> 30] >>
  /\ \E t \in timers : t.id = m_discovery_timeout /\ t.ms = 10000

\* the worker has just run a RegisterRequest that called SLPReg
LastRun == execIn[Len(execIn)]

Registered ==
  /\ wpc = "aoq_wake" /\ wsrc = "queue"
  /\ Len(execIn) > 0
  /\ LastRun.kind = "RegisterRequest"
  /\ slp.calls # << >>

\* C5 as stated: a Register asking for less than MIN_LIFETIME, with no
\* minimum from the DA, registers and stores exactly MIN_LIFETIME.
C5_BelowFloorGrantedFloor ==
  (Registered /\ LastRun.asked < MIN_LIFETIME /\ slp.min = 0)
    => /\ slp.calls[1].lifetime = MIN_LIFETIME
       /\ m_url_map[LastRun.url].lifetime = MIN_LIFETIME

\* C5 amended: such a Register registers and stores twice the slpd aging
\* time (Register raises every lifetime up to that value before the floor
\* is applied); no lifetime registered or stored is below MIN_LIFETIME.
C5_BelowFloorGrantedTwiceAging ==
  /\ (Registered /\ LastRun.asked < MIN_LIFETIME /\ slp.min = 0)
       => /\ slp.calls[1].lifetime = Max(2 * SLPD_AGING_TIME_S, MIN_LIFETIME)
          /\ m_url_map[LastRun.url].lifetime
               = Max(2 * SLPD_AGING_TIME_S, MIN_LIFETIME)
  /\ \A u \in DOMAIN m_url_map : m_url_map[u].lifetime >= MIN_LIFETIME
  /\ \A i \in 1..Len(slp.calls) :
       slp.calls[i].op = "SLPReg" => slp.calls[i].lifetime >= MIN_LIFETIME

\* Register(A, 1) was run with no DA minimum and registered 30 s
C5_Witness ==
  /\ Registered /\ LastRun.asked = 1 /\ slp.min = 0
  /\ slp.calls[1].lifetime = 30
  /\ m_url_map[LastRun.url].lifetime = 30

\* C6 as stated: Join returns only after the worker has left the callback
\* it was running and its loop; after Join and Cleanup no timeout is armed
\* and no wake socket is open or registered with a loop.
C6_StopLeavesNothingBehind ==
  /\ joined => (wpc = "exited" /\ wcur = NoCallback)
  /\ (joined /\ ret.op = "Cleanup")
       => /\ timers = {}
          /\ ~m_incoming_socket.open /\ ~m_outgoing_socket.open
          /\ m_ss_sockets = {} /\ m_main_ss_sockets = {}

\* C7: every callback of a caller is run by the host, inside the drain of
\* RequestComplete: never by the worker, never inside Discover, Register or
\* DeRegister; this holds for the results of timer-driven discovery too.
C7_CallbacksOnHostInDrain ==
  /\ [](\A i \in 1..Len(cbLog) :
          cbLog[i].thread = "host" /\ cbLog[i].where = "RequestComplete")
  /\ [][cbLog' # cbLog
        => /\ hpc = "rc_run" /\ hpc' = "rc_pop"
           /\ wpc' = wpc
           /\ cbLog' = Append(cbLog, [rid |-> hcur.rid, kind |-> hcur.kind,
                                      ok |-> hcur.ok, thread |-> "host",
                                      where |-> "RequestComplete"])]_vars

\* the host has run the callback of a registration and the discovery
\* callback for a run the refresh timeout started
C7_Witness ==
  /\ \E i \in 1..Len(cbLog) :
       cbLog[i].kind = "DiscoveryActionComplete" /\ cbLog[i].rid = 0
  /\ \E i \in 1..Len(cbLog) :
       cbLog[i].kind = "SimpleActionComplete" /\ cbLog[i].rid > 0

Accepted(r) == \E i \in 1..Len(enqIn) : enqIn[i].rid = r
Delivered(r) == \E i \in 1..Len(cbLog) : cbLog[i].rid = r

\* C8: while nobody stops the bridge, every request pushed on the incoming
\* queue of a running worker has its callback run by the host, and no
\* request has its callback run twice.
C8_EveryRequestCompletesOnce ==
  /\ \A r \in 1..MaxRequests :
       (Accepted(r) /\ WorkerRunning) ~> Delivered(r)
  /\ [](\A r \in 1..MaxRequests :
          Cardinality({i \in 1..Len(cbLog) : cbLog[i].rid = r}) <= 1)

\* wake-up bytes coalesce: two requests wait in the incoming queue of a
\* running worker, the socket is full and the host is about to send the
\* wake-up byte of the second one
C8_Witness ==
  /\ hpc = "wake"
  /\ wpc = "loop"
  /\ m_incoming_socket.bytes = MaxPipe
  /\ Len(m_incoming_queue) = 2

\* Init has just returned false
InitFailed == ret = [op |-> "Init", val |-> FALSE]

\* C9: when Init returns false no wake socket is open, none is registered
\* with m_ss or the host loop, the SLP handle is closed and m_init_ok is
\* false; a Start that follows returns false and starts no thread.
C9_FailedInitLeavesNothing ==
  /\ [](InitFailed
          => /\ ~m_incoming_socket.open /\ ~m_outgoing_socket.open
             /\ "incoming" \notin m_ss_sockets
             /\ "outgoing" \notin m_main_ss_sockets
             /\ ~slp_open
             /\ ~m_init_ok)
  /\ [][(InitFailed /\ ret'.op = "Start")
        => (ret'.val = FALSE /\ wpc' = wpc)]_vars

\* Init failed on a bridge that had been initialised, run, joined and
\* cleaned up before
C9_Witness == InitFailed /\ joined /\ Len(cbLog) > 0

\* C10 as stated: while the worker thread runs, only the worker touches
\* m_ss (terminate, sockets, timeouts).
C10_OnlyWorkerTouchesLoop == ssTouch \subseteq {"worker"}

\* the host has just returned from a call of Discover()
DiscoverReturns ==
  hpc = "idle" /\ ret'.op = "Discover" /\ (ret' # ret \/ rids' # rids)

\* C11: Discover() on a bridge without a discovery callback returns false,
\* pushes nothing, sends no wake-up byte and changes nothing else; with a
\* callback it returns true, pushes exactly one DiscoveryRequest at the back
\* of the incoming queue and goes on to send the wake-up byte.
C11_DiscoverNeedsCallback ==
  [][DiscoverReturns
     => IF m_discovery_callback
          THEN /\ ret'.val
               /\ Len(m_incoming_queue') = Len(m_incoming_queue) + 1
               /\ SubSeq(m_incoming_queue', 1, Len(m_incoming_queue))
                    = m_incoming_queue
               /\ m_incoming_queue'[Len(m_incoming_queue')].kind
                    = "DiscoveryRequest"
               /\ hpc' = "wake"
          ELSE /\ ~ret'.val
               /\ UNCHANGED << ctorVars, lifeVars, m_terminate, inQVars,
                               outQVars, engineVars, hpc, hcur, joined, rids,
                               workerVars, cbLog, ssTouch >>]_vars

\* Discover() was refused on a running bridge that had accepted a request
\* before: that request is still the only one pushed
C11_Witness ==
  /\ ret = [op |-> "Discover", val |-> FALSE]
  /\ ~m_discovery_callback
  /\ WorkerRunning
  /\ rids = 1 /\ Len(enqIn) = 1
  /\ hpc = "idle"

\* the worker has just called SLPReg, for a RegisterRequest or for a
\* renewal timeout that fired
RegistrationAttempt ==
  /\ RunsRequest("RegisterRequest") \/ fires' = fires + 1
  /\ slp'.calls # << >>
  /\ slp'.calls[1].op = "SLPReg"

\* lifetimes a caller may pass: all around the aging margin, and the largest
AskedLifetimes == (0..(4 * SLPD_AGING_TIME_S)) \cup {USHORT - 1}

\* C12: every SLPReg call, whatever it returns, leaves exactly one renewal
\* timeout armed for its url, held by the entry, at (lease - aging - 1)
\* seconds; for every lease Register can produce that delay is not negative
\* and less than the lease.
C12_RenewalArmedBeforeLapse ==
  [][RegistrationAttempt
     => LET call == slp'.calls[1]
            armed == RenewalTimers(timers', call.url)
        IN  /\ Cardinality(armed) = 1
            /\ call.lifetime = m_url_map'[call.url].lifetime
            /\ \A t \in armed :
                 /\ t.id = m_url_map'[call.url].timeout
                 /\ t.ms = (call.lifetime - SLPD_AGING_TIME_S - 1) * 1000
                 /\ t.ms >= 0
                 /\ t.ms < call.lifetime * 1000
            /\ \A asked \in AskedLifetimes,
                  min_lifetime \in RefreshIntervals \cup {USHORT - 1} :
                 LET lease == EffectiveLifetime(RegisterLifetime(asked),
                                                min_lifetime)
                 IN  /\ RenewalDelay(lease)
                          = (lease - SLPD_AGING_TIME_S - 1) * 1000
                     /\ RenewalDelay(lease) >= 0
                     /\ RenewalDelay(lease) < lease * 1000]_vars

\* a renewal timeout fired, its SLPReg call failed, and the 30 s lease has
\* its one renewal timeout armed again at 14 s
C12_Witness ==
  /\ fires = 1
  /\ slp.calls # << >> /\ slp.calls[1].op = "SLPReg"
  /\ slp.err = SLP_ERR
  /\ slp.calls[1].lifetime = 30
  /\ RenewalTimers(timers, slp.calls[1].url)
       = {[id |-> m_url_map[slp.calls[1].url].timeout, kind |-> "reg",
           url |-> slp.calls[1].url, ms |-> 14000]}

\* a discovery run has just failed: SLPFindSrvs returned an error or its
\* callback stored one
DiscoveryFailed ==
  /\ slp.calls # << >>
  /\ slp.calls[1].op = "SLPFindSrvs"
  /\ ~(slp.err = SLP_OK /\ slp.cberr = SLP_OK)

\* C13 as stated: when SLPFindSrvs fails the completion queued for the host
\* carries ok = FALSE and the refresh timeout is armed at the refresh_time
\* the constructor was given, whatever that unsigned int is.
C13_FailedDiscoveryUsesBaseRefresh ==
  DiscoveryFailed
    => /\ enqOut[Len(enqOut)].kind = "DiscoveryActionComplete"
       /\ ~enqOut[Len(enqOut)].ok
       /\ \E t \in timers :
            /\ t.id = m_discovery_timeout /\ t.kind = "disc"
            /\ t.ms = m_refresh_time * 1000

\* the discovery timeouts armed on m_ss
DiscoveryTimers(ts) == {t \in ts : t.kind = "disc"}

\* the worker has just run DiscoveryRequest, for the host or for the
\* refresh timeout
DiscoveryRun ==
  /\ RunsRequest("DiscoveryRequest") \/ fires' = fires + 1
  /\ slp'.calls # << >>
  /\ slp'.calls[1].op = "SLPFindSrvs"

\* C14: at most one discovery timeout is ever armed, and it is the one
\* m_discovery_timeout holds; a discovery run leaves exactly one armed; a
\* run started by the timeout starts from the worker's loop, never while
\* the worker is inside a callback it took from the queue.
C14_OneDiscoveryTimer ==
  /\ [](/\ Cardinality(DiscoveryTimers(timers)) <= 1
        /\ \A t \in DiscoveryTimers(timers) : t.id = m_discovery_timeout)
  /\ [][DiscoveryRun
        => /\ Cardinality(DiscoveryTimers(timers')) = 1
           /\ wpc \in {"loop", "nr_run"}
           /\ fires' = fires + 1 => (wpc = "loop" /\ wcur = NoCallback)]_vars

\* Discover() was run, the refresh timeout fired and ran discovery again,
\* and a second Discover() has just been run: one timeout is armed
C14_Witness ==
  /\ wpc = "aoq_wake" /\ wsrc = "queue"
  /\ fires = 1
  /\ Len(execIn) = 2
  /\ execIn[1].kind = "DiscoveryRequest" /\ execIn[2].kind = "DiscoveryRequest"
  /\ Len(enqOut) = 3 /\ enqOut[2].rid = 0
  /\ Cardinality(DiscoveryTimers(timers)) = 1

\* C15: every url has at most one renewal timeout armed, the one its entry
\* holds, and a url without an entry has none.
C15_OneRenewalTimerPerEntry ==
  \A url \in Urls :
    /\ Cardinality(RenewalTimers(timers, url)) <= 1
    /\ \A t \in RenewalTimers(timers, url) :
         /\ url \in DOMAIN m_url_map
         /\ m_url_map[url].timeout = t.id

\* a url was registered, its renewal timeout fired, and it has just been
\* registered again with another lifetime: one renewal timeout is armed
C15_Witness ==
  /\ wpc = "aoq_wake" /\ wsrc = "queue"
  /\ fires = 1
  /\ Len(execIn) = 2
  /\ execIn[1].kind = "RegisterRequest" /\ execIn[2].kind = "RegisterRequest"
  /\ execIn[1].url = execIn[2].url
  /\ execIn[1].lifetime # execIn[2].lifetime
  /\ slp.calls # << >>
  /\ Len(enqOut) = 2
  /\ Cardinality(RenewalTimers(timers, execIn[1].url)) = 1

\* C16: a DeregisterRequest makes exactly one SLPDereg call for its url,
\* whether or not the url had an entry; when the call is made the entry is
\* gone, and after the handler no renewal timeout is armed for the url; the
\* completion it queues, and the host delivers, has ok = TRUE exactly when
\* the return code and the error stored by the callback are both SLP_OK.
C16_DeregisterAlwaysCalls ==
  /\ [][RunsRequest("DeregisterRequest")
        => /\ Len(slp'.calls) = 1
           /\ slp'.calls[1].op = "SLPDereg"
           /\ slp'.calls[1].url = wcur.url
           /\ ~slp'.calls[1].entry
           /\ wcur.url \notin DOMAIN m_url_map'
           /\ RenewalTimers(timers', wcur.url) = {}
           /\ enqOut' = Append(enqOut,
                               [kind |-> "SimpleActionComplete",
                                rid |-> wcur.rid,
                                ok |-> (slp'.err = SLP_OK
                                          /\ slp'.cberr = SLP_OK),
                                urls |-> << >>])]_vars
  /\ [](\A i \in 1..Len(execOut) :
          /\ cbLog[i].rid = execOut[i].rid
          /\ cbLog[i].kind = execOut[i].kind
          /\ cbLog[i].ok = execOut[i].ok)

\* DeRegister of a url that was never registered: SLPDereg was called, it
\* returned SLP_OK but its callback stored an error, and the completion
\* queued for the host has ok = FALSE
C16_Witness ==
  /\ Len(execIn) = 1 /\ execIn[1].kind = "DeregisterRequest"
  /\ fires = 0
  /\ wpc = "aoq_wake"
  /\ slp.calls # << >> /\ slp.calls[1].op = "SLPDereg"
  /\ slp.err = SLP_OK /\ slp.cberr = SLP_ERR
  /\ enqOut = << [kind |-> "SimpleActionComplete", rid |-> 1, ok |-> FALSE,
                  urls |-> << >>] >>

\* the worker has just called SLPReg
JustRegistered == slp.calls # << >> /\ slp.calls[1].op = "SLPReg"

\* C17 as stated: every entry's lifetime is at least MIN_LIFETIME and at
\* least the refresh interval the DA advertises now, which may have changed
\* since the entry was made (looked at whenever the bridge registers).
C17_LeaseAtLeastAdvertisedMinimum ==
  \A url \in DOMAIN m_url_map :
    /\ m_url_map[url].lifetime >= MIN_LIFETIME
    /\ JustRegistered => m_url_map[url].lifetime >= slp.min

\* C17 amended: every entry's lifetime is at least MIN_LIFETIME in every
\* state; a RegisterRequest leaves its url with a lifetime that is at least
\* the lifetime it was given and the refresh interval the DA advertised to
\* it; a renewal registers the lifetime stored and leaves it as it is.
C17_LeaseAtLeastMinimumWhenRequested ==
  /\ [](\A url \in DOMAIN m_url_map :
          m_url_map[url].lifetime >= MIN_LIFETIME)
  /\ [][RunsRequest("RegisterRequest")
        => /\ wcur.url \in DOMAIN m_url_map'
           /\ m_url_map'[wcur.url].lifetime >= slp'.min
           /\ m_url_map'[wcur.url].lifetime >= wcur.lifetime
           /\ m_url_map'[wcur.url].lifetime
                \in {wcur.lifetime, MIN_LIFETIME, slp'.min}]_vars
  /\ [][(fires' = fires + 1 /\ slp'.calls # << >>
           /\ slp'.calls[1].op = "SLPReg")
        => /\ slp'.calls[1].url \in DOMAIN m_url_map
           /\ slp'.calls[1].lifetime = m_url_map[slp'.calls[1].url].lifetime
           /\ m_url_map'[slp'.calls[1].url].lifetime
                = m_url_map[slp'.calls[1].url].lifetime]_vars

\* Register(A, 1) was run while the DA advertised 35 s, and the entry has
\* 35 s; the 40 s of an earlier Register(A, 40) were replaced
C17_Witness ==
  /\ Registered
  /\ Len(execIn) = 2 /\ execIn[1].asked = 40 /\ execIn[1].url = LastRun.url
  /\ LastRun.asked = 1
  /\ slp.min = 35
  /\ m_url_map[LastRun.url].lifetime = 35

\* C18: while the worker runs a callback it took from the incoming queue it
\* holds neither mutex and the incoming one can be locked by a producer;
\* while the host runs a completion it took from the outgoing queue it
\* holds neither mutex and the outgoing one can be locked by the worker.
C18_NoMutexHeldDuringAction ==
  /\ wpc = "nr_run"
       => /\ m_incoming_mutex # "worker" /\ m_outgoing_mutex # "worker"
          /\ Lockable(m_incoming_mutex)
  /\ hpc = "rc_run"
       => /\ m_incoming_mutex # "host" /\ m_outgoing_mutex # "host"
          /\ Lockable(m_outgoing_mutex)

\* the worker is inside the second request while the host is inside the
\* completion of the first, and both mutexes are free
C18_Witness ==
  /\ wpc = "nr_run" /\ hpc = "rc_run"
  /\ wcur.rid = 2 /\ hcur.rid = 1
  /\ m_incoming_mutex = "free" /\ m_outgoing_mutex = "free"

\* an earlier RegisterRequest for the url of the last one, with no
\* DeregisterRequest in between, was answered with ok = TRUE
EarlierRegisterOk ==
  \E i \in 1..(Len(execIn) - 1) :
    /\ execIn[i].kind = "RegisterRequest"
    /\ execIn[i].url = LastRun.url
    /\ \A k \in (i + 1)..(Len(execIn) - 1) :
         execIn[k].kind # "DeregisterRequest"
    /\ \E j \in 1..Len(enqOut) :
         enqOut[j].rid = execIn[i].rid /\ enqOut[j].ok

\* C19 as stated: a RegisterRequest is answered with ok = TRUE only if
\* SLPReg has succeeded for its url: in the request itself, in an earlier
\* request for the url that was answered with ok = TRUE, or in a renewal.
C19_OkOnlyAfterSuccessfulRegister ==
  (/\ wpc = "aoq_wake" /\ wsrc = "queue"
   /\ Len(execIn) > 0
   /\ LastRun.kind = "RegisterRequest"
   /\ enqOut[Len(enqOut)].rid = LastRun.rid
   /\ enqOut[Len(enqOut)].ok)
    => \/ slp.calls # << >> /\ slp.err = SLP_OK /\ slp.cberr = SLP_OK
       \/ EarlierRegisterOk
       \/ fires > 0

\* C20: requests are numbered in the order the host pushes them, and the
\* host runs the callbacks of its requests in that order, whatever
\* completions of timer-driven discovery (numbered 0) run in between.
C20_CompletionsInSubmissionOrder ==
  /\ \A k \in 1..Len(enqIn) : enqIn[k].rid = k
  /\ \A i \in 1..Len(cbLog), j \in 1..Len(cbLog) :
       (i < j /\ cbLog[i].rid > 0 /\ cbLog[j].rid > 0)
         => cbLog[i].rid < cbLog[j].rid

\* the host ran the callback of its first request, then the discovery
\* callback for a run the refresh timeout started, then the callback of
\* its second request
C20_Witness ==
  /\ Len(cbLog) = 3
  /\ cbLog[1].rid = 1 /\ cbLog[2].rid = 0 /\ cbLog[3].rid = 2
  /\ cbLog[3].kind = "SimpleActionComplete"

====
